---- MODULE Spec2Model ----
(***************************************************************************)
(* A model of the expiry-date tracker's storage and service layer          *)
(* (src/app.py): the file-backed DataManager (load / atomic save), the     *)
(* InventoryService (get_inventory sweep, add_item, delete_item), the      *)
(* CategoryService (get_categories, add_category, delete_category) and the *)
(* process-wide lock DB_LOCK.                                              *)
(*                                                                         *)
(* Four specifications share the definitions below:                        *)
(*   Spec      the inventory operations, one action per service call       *)
(*   SpecCat   the category operations, one action per service call        *)
(*   SpecConc  request threads taking DB_LOCK, load and save as steps      *)
(*   SpecSave  DataManager.save statement by statement, with failures      *)
(***************************************************************************)
EXTENDS Integers, Sequences, FiniteSets, TLC

(***************************************************************************)
(* Bounds of the model.                                                    *)
(***************************************************************************)
MaxItems == 2        \* items a collection may hold before add_item is cut off
MaxClock == 2        \* distinct microsecond readings of the clock
MaxDayAdvance == 1   \* days that may pass after the first state

(***************************************************************************)
(* Strings.  A name is the sequence of its code points, so lower() and the *)
(* ordering used by sorted() are computed, not assumed.                    *)
(***************************************************************************)
General == <<71, 101, 110, 101, 114, 97, 108>>
Food == <<70, 111, 111, 100>>
Medicine == <<77, 101, 100, 105, 99, 105, 110, 101>>
Documents == <<68, 111, 99, 117, 109, 101, 110, 116, 115>>
PersonalCare == <<80, 101, 114, 115, 111, 110, 97, 108, 32, 67, 97, 114, 101>>
FoodLower == <<102, 111, 111, 100>>
Snacks == <<83, 110, 97, 99, 107, 115>>
SnacksLower == <<115, 110, 97, 99, 107, 115>>

\* str.lower() on ASCII text
Lower(s) == [i \in DOMAIN s |-> IF s[i] >= 65 /\ s[i] <= 90 THEN s[i] + 32 ELSE s[i]]

\* Python's str < str: lexicographic on code points, a proper prefix is smaller
RECURSIVE StrLess(_, _)
StrLess(a, b) ==
    IF b = <<>> THEN FALSE
    ELSE IF a = <<>> THEN TRUE
    ELSE IF Head(a) # Head(b) THEN Head(a) < Head(b)
    ELSE StrLess(Tail(a), Tail(b))

(***************************************************************************)
(* Dates.  A day is its ordinal, counted from 2025-01-01; the text of a    *)
(* date is the record of its zero-padded fields YYYY-MM-DD, which compare  *)
(* as the strings do, field by field.  2025..2027 have no leap year.       *)
(***************************************************************************)
Epoch == <<2025, 1, 1>>
MonthLen == <<31, 28, 31, 30, 31, 30, 31, 31, 30, 31, 30, 31>>

RECURSIVE DaysBeforeMonth(_)
DaysBeforeMonth(m) == IF m <= 1 THEN 0 ELSE MonthLen[m - 1] + DaysBeforeMonth(m - 1)

RECURSIVE MonthOfDoy(_, _)
MonthOfDoy(doy, m) ==
    IF doy < DaysBeforeMonth(m + 1) THEN m ELSE MonthOfDoy(doy, m + 1)

\* A JSON value held in a date field.  k says what kind of value it is:
\*   "date"     a string of the shape YYYY-MM-DD (its fields may be no calendar date)
\*   "text"     a string that does not start with a digit, such as "soon"
\*   "num"      a truthy value that is no string (a number, a list)
\*   "none"     null or the empty string
\*   "missing"  the key is absent
DateText(y, m, d) == [k |-> "date", y |-> y, m |-> m, d |-> d]
OtherValue(kind) == [k |-> kind, y |-> 0, m |-> 0, d |-> 0]
Missing == OtherValue("missing")

\* datetime.strftime('%Y-%m-%d') of the day with ordinal n
StrfTime(n) ==
    LET doy == n % 365
        m == MonthOfDoy(doy, 1)
    IN DateText(Epoch[1] + (n \div 365), m, doy - DaysBeforeMonth(m) + 1)

\* datetime.strptime(v, '%Y-%m-%d'): the day's ordinal, or the exception raised
StrpTime(v) ==
    IF v.k = "missing" THEN [err |-> "KeyError", day |-> 0]
    ELSE IF v.k \in {"num", "none"} THEN [err |-> "TypeError", day |-> 0]
    ELSE IF v.k = "text" THEN [err |-> "ValueError", day |-> 0]
    ELSE IF v.m \in 1..12 /\ v.d >= 1 /\ v.d <= MonthLen[v.m] /\ v.y >= Epoch[1]
         THEN [err |-> "", day |-> (v.y - Epoch[1]) * 365 + DaysBeforeMonth(v.m) + v.d - 1]
         ELSE [err |-> "ValueError", day |-> 0]

\* Faulty variant: <= in place of <
DateTextLessOrEqual(a, b) ==
    \/ a.y < b.y
    \/ a.y = b.y /\ a.m < b.m
    \/ a.y = b.y /\ a.m = b.m /\ a.d <= b.d

\* item['expiry_date'] < today_str on two strings of the shape YYYY-MM-DD
DateTextLess(a, b) ==
    \/ a.y < b.y
    \/ a.y = b.y /\ a.m < b.m
    \/ a.y = b.y /\ a.m = b.m /\ a.d < b.d

(***************************************************************************)
(* Program constants.                                                      *)
(***************************************************************************)
RetentionDays == 30      \* timedelta(days=30)

\* DEFAULT_CATEGORIES, in order
DEFAULT_CATEGORIES ==
    << [name |-> General, type |-> "system"],
       [name |-> Food, type |-> "system"],
       [name |-> Medicine, type |-> "system"],
       [name |-> Documents, type |-> "system"],
       [name |-> PersonalCare, type |-> "system"] >>

(***************************************************************************)
(* Persisted documents.  A file is there with a parsed document, absent,   *)
(* or there but unreadable.                                                *)
(***************************************************************************)
Stored(doc) == [st |-> "ok", doc |-> doc]
AbsentFile == [st |-> "absent", doc |-> <<>>]
CorruptFile == [st |-> "corrupt", doc |-> <<>>]

\* DataManager.load for a sequence collection: the document, or [] when the
\* file is absent or does not parse
Load(file) == IF file.st = "ok" THEN file.doc ELSE <<>>

\* DataManager.save as the services see it: the target holds the new document,
\* or the call raised and the target is as it was (SpecSave shows why)
Save(file, doc, raises) == IF raises THEN file ELSE Stored(doc)

(***************************************************************************)
(* Items.  category = NoCategory says the key 'category' is absent.        *)
(***************************************************************************)
NoCategory == <<-1>>

Item(id, name, exp, cat, owner, added, archived) ==
    [id |-> id, name |-> name, expiry_date |-> exp, category |-> cat,
     owner |-> owner, added_at |-> added, archived_at |-> archived]

\* [x for x in seq if Keep(x)]
Filter(seq, Keep(_)) == SelectSeq(seq, Keep)

(***************************************************************************)
(* InventoryService.get_inventory, the two pipelines.                      *)
(***************************************************************************)
\* Faulty variant: the default is not written into the item
SelfHealForgotten(item) == item

\* if 'category' not in item: item['category'] = 'General'
SelfHeal(item) ==
    IF item.category = NoCategory THEN [item EXCEPT !.category = General] ELSE item

\* The try block's decision for one fresh item: "expired", "fresh", or "raised"
\* when the comparison of a non-string with today_str raises TypeError.
ExpiryCheck(item, today_str) ==
    LET v == item.expiry_date
    IN IF v.k \in {"none", "missing"} THEN "fresh"
       ELSE IF v.k = "num" THEN "raised"
       ELSE IF v.k = "text" THEN "fresh"
       ELSE IF DateTextLess(v, today_str) THEN "expired"
       ELSE "fresh"

\* Pipeline 1, Fresh -> Expired.  acc = [new_fresh, all_expired, updates_needed]
RECURSIVE SweepFresh(_, _, _)
SweepFresh(all_fresh, today_str, acc) ==
    IF all_fresh = <<>> THEN acc
    ELSE LET item == SelfHeal(Head(all_fresh))
             healed == Head(all_fresh).category = NoCategory
             next ==
                 IF ExpiryCheck(item, today_str) = "expired"
                 THEN [new_fresh |-> acc.new_fresh,
                       all_expired |->
                           Append(acc.all_expired, [item EXCEPT !.archived_at = today_str]),
                       updates_needed |-> TRUE]
                 ELSE [new_fresh |-> Append(acc.new_fresh, item),
                       all_expired |-> acc.all_expired,
                       updates_needed |-> acc.updates_needed \/ healed]
         IN SweepFresh(Tail(all_fresh), today_str, next)

\* Faulty variant: a record is kept through the thirtieth day
WithinRetentionInclusive(today_date, exp_day) == today_date <= exp_day + RetentionDays

\* today_date < exp_date + timedelta(days=30).  exp_date is a midnight and
\* today_date a moment of the day today, so the days decide.
WithinRetention(today_date, exp_day) == today_date < exp_day + RetentionDays

\* Pipeline 2, purge.  acc = [final_expired, updates_needed, err]; err is the
\* exception that leaves the loop (a KeyError is not caught by the except clause).
RECURSIVE PurgeExpired(_, _, _)
PurgeExpired(all_expired, today_date, acc) ==
    IF all_expired = <<>> \/ acc.err # "" THEN acc
    ELSE LET item == SelfHeal(Head(all_expired))
             healed == Head(all_expired).category = NoCategory
             parsed == StrpTime(item.expiry_date)
             next ==
                 IF parsed.err = "KeyError"
                 THEN [acc EXCEPT !.err = "KeyError"]
                 ELSE IF parsed.err = "" /\ WithinRetention(today_date, parsed.day)
                 THEN [final_expired |-> Append(acc.final_expired, item),
                       updates_needed |-> acc.updates_needed \/ healed,
                       err |-> ""]
                 ELSE [final_expired |-> acc.final_expired,
                       updates_needed |-> TRUE,
                       err |-> ""]
         IN PurgeExpired(Tail(all_expired), today_date, next)

\* Faulty variant: the purge runs over the expired items as loaded, and the
\* items that expire in this call are filed after it
SweepPurgeFirst(all_fresh, all_expired, day) ==
    LET p2 == PurgeExpired(all_expired, day,
                  [final_expired |-> <<>>, updates_needed |-> FALSE, err |-> ""])
        p1 == SweepFresh(all_fresh, StrfTime(day),
                  [new_fresh |-> <<>>, all_expired |-> p2.final_expired,
                   updates_needed |-> p2.updates_needed])
    IN [new_fresh |-> p1.new_fresh, final_expired |-> p1.all_expired,
        updates_needed |-> p1.updates_needed, err |-> p2.err]

\* Both pipelines on the loaded collections
Sweep(all_fresh, all_expired, day) ==
    LET p1 == SweepFresh(all_fresh, StrfTime(day),
                  [new_fresh |-> <<>>, all_expired |-> all_expired, updates_needed |-> FALSE])
        p2 == PurgeExpired(p1.all_expired, day,
                  [final_expired |-> <<>>, updates_needed |-> p1.updates_needed, err |-> ""])
    IN [new_fresh |-> p1.new_fresh, final_expired |-> p2.final_expired,
        updates_needed |-> p2.updates_needed, err |-> p2.err]

\* Faulty variant: no filter on the owner
OwnedByAnyone(items, username) == items

\* [i for i in items if i.get('owner') == username]
OwnedBy(items, username) == LET Mine(i) == i.owner = username IN Filter(items, Mine)

(***************************************************************************)
(* InventoryService.add_item and delete_item, as transformations.          *)
(***************************************************************************)
\* Faulty variant: the category is taken as the request gives it, absent or not
NewItemAsGiven(item_id, data, username, day) ==
    Item(item_id, data.name, data.expiry_date, data.category, username, StrfTime(day), Missing)

\* The record add_item builds.  data.category = NoCategory says the request
\* carried no 'category', so data.get('category', 'General') gives the default.
NewItem(item_id, data, username, day) ==
    Item(item_id, data.name, data.expiry_date,
         IF data.category = NoCategory THEN General ELSE data.category,
         username, StrfTime(day), Missing)

\* Faulty variant: the owner is not compared
KeepOnDeleteById(i, item_id, username) == i.id # item_id

\* The test of delete_item's list comprehension: the item is kept
KeepOnDelete(i, item_id, username) == ~(i.id = item_id /\ i.owner = username)

\* [i for i in fresh if not (i['id'] == item_id and i['owner'] == username)]
WithoutItem(items, item_id, username) ==
    LET Keep(i) == KeepOnDelete(i, item_id, username) IN Filter(items, Keep)

(***************************************************************************)
(* CategoryService.                                                        *)
(***************************************************************************)
SysId(idx) == [k |-> "sys", n |-> idx]
IntId(n) == [k |-> "int", n |-> n]
NoId == [k |-> "none", n |-> 0]
NoOwner == "<none>"

Category(id, name, type, owner) == [id |-> id, name |-> name, type |-> type, owner |-> owner]

\* An entry of DEFAULT_CATEGORIES as get_categories returns it: no id, no owner
DefaultEntry(c) == Category(NoId, c.name, c.type, NoOwner)

\* The document ensure_directory seeds the categories file with
SeedCategories ==
    [idx \in 1..Len(DEFAULT_CATEGORIES) |->
        Category(SysId(idx - 1), DEFAULT_CATEGORIES[idx].name, "system", "system")]

NamesOf(cs) == {cs[i].name : i \in DOMAIN cs}

\* The loop of get_categories over all_cats; cat_map keeps insertion order
RECURSIVE MergeCustom(_, _, _)
MergeCustom(all_cats, username, cat_map) ==
    IF all_cats = <<>> THEN cat_map
    ELSE LET c == Head(all_cats)
         IN MergeCustom(Tail(all_cats), username,
                IF c.owner = username /\ c.name \notin NamesOf(cat_map)
                THEN Append(cat_map, c) ELSE cat_map)

\* sorted(..., key=lambda x: x['name']): a stable sort on the names
RECURSIVE InsertByName(_, _)
InsertByName(c, sorted) ==
    IF sorted = <<>> THEN <<c>>
    ELSE IF StrLess(c.name, Head(sorted).name) THEN <<c>> \o sorted
    ELSE <<Head(sorted)>> \o InsertByName(c, Tail(sorted))

RECURSIVE SortedByName(_, _)
SortedByName(cs, acc) ==
    IF cs = <<>> THEN acc ELSE SortedByName(Tail(cs), InsertByName(Head(cs), acc))

\* get_categories(username) on the loaded document
GetCategoriesResult(all_cats, username) ==
    SortedByName(
        MergeCustom(all_cats, username,
            [i \in DOMAIN DEFAULT_CATEGORIES |-> DefaultEntry(DEFAULT_CATEGORIES[i])]),
        <<>>)

\* The duplicate check of add_category: some stored category rejects the name
SystemClash(c, name) == c.type = "system" /\ Lower(c.name) = Lower(name)
\* Faulty variant: the names are compared as they are
OwnerClashExact(c, name, username) == c.owner = username /\ c.name = name

OwnerClash(c, name, username) == c.owner = username /\ Lower(c.name) = Lower(name)

\* The message add_category returns for the first clash, "" when there is none
RECURSIVE DuplicateCheck(_, _, _)
DuplicateCheck(all_cats, name, username) ==
    IF all_cats = <<>> THEN ""
    ELSE IF SystemClash(Head(all_cats), name) THEN "Category already exists (System)"
    ELSE IF OwnerClash(Head(all_cats), name, username) THEN "Category already exists"
    ELSE DuplicateCheck(Tail(all_cats), name, username)

\* delete_category's search: the first custom category of that name and owner,
\* as a sequence of at most one element
CatToDel(all_cats, name, username) ==
    LET Hit(c) == c.name = name /\ c.owner = username /\ c.type = "custom"
        hits == Filter(all_cats, Hit)
    IN IF hits = <<>> THEN <<>> ELSE <<Head(hits)>>

\* [c for c in all_cats if c['id'] != cat_to_del['id']]
WithoutCategory(all_cats, cat_to_del) ==
    LET Keep(c) == c.id # cat_to_del.id IN Filter(all_cats, Keep)

\* Faulty variant: the owner is not compared
MigratesAnyOwner(item, name, username) == item.category = name

\* migrate_items on a loaded collection
Migrates(item, name, username) == item.owner = username /\ item.category = name

MigrateItems(items, name, username) ==
    [i \in DOMAIN items |->
        IF Migrates(items[i], name, username)
        THEN [items[i] EXCEPT !.category = General] ELSE items[i]]

MigrateDirty(items, name, username) ==
    \E i \in DOMAIN items : Migrates(items[i], name, username)

(***************************************************************************)
(* State.                                                                  *)
(*   fresh, expired, categories   the persisted collections                *)
(*   today       the day datetime.now() falls on                           *)
(*   clock       int(datetime.now().timestamp() * 1_000_000)               *)
(*   last        the service call that ended last: its arguments, its      *)
(*               result and the collections as they were when it began     *)
(*   lock, thr   DB_LOCK and the request threads (SpecConc)                *)
(*   shadow      the collections as the calls would leave them if each ran *)
(*               alone, in the order in which they first load (SpecConc)   *)
(*   disk, sv    the target, the temporary files and the frame of          *)
(*               DataManager.save (SpecSave)                               *)
(*   users       the users file: a mapping written by register             *)
(*   deleted     the (owner, name) pairs of the custom categories that     *)
(*               delete_category removed and add_category has not stored   *)
(*               again since                                               *)
(***************************************************************************)
VARIABLES fresh, expired, categories, today, clock, last, lock, thr, shadow, disk, sv,
          users, deleted

files == <<fresh, expired, categories>>
svcVars == <<fresh, expired, categories, today, clock, last>>
concVars == <<lock, thr, shadow>>
saveVars == <<disk, sv>>
auxVars == <<users, deleted>>
vars == <<fresh, expired, categories, today, clock, last, lock, thr, shadow, disk, sv,
         users, deleted>>

Users == {"alice", "bob"}

\* The users document is a mapping from usernames to user records, the other
\* documents are sequences: {} and [] are different documents
Mapping(f) == [kind |-> "mapping", of |-> f]
EmptyMapping == Mapping(<<>>)

\* The first day of the model, 2026-03-01: thirty days back crosses February
StartDay == StrpTime(DateText(2026, 3, 1)).day
Days == StartDay..(StartDay + MaxDayAdvance)

Snapshot == [fresh |-> fresh, expired |-> expired, categories |-> categories]

NoCall ==
    [op |-> "none", user |-> "", id |-> 0, name |-> <<>>, ok |-> FALSE,
     raised |-> FALSE, saves |-> 0, fresh_out |-> <<>>, expired_out |-> <<>>,
     cats_out |-> <<>>, item |-> <<>>, data |-> <<>>, day |-> today, streak |-> 0, pre |-> Snapshot]

\* The record of a call that ended: op(user, id or name) returned ok, or raised,
\* after `saves` completed saves.  day is the day of the call; streak counts the
\* get_inventory calls of one user that returned one after the other on one
\* day with no other call between them (2 stands for two or more).
Ended(op, user, id, name, ok, raised, saves) ==
    [NoCall EXCEPT !.op = op, !.user = user, !.id = id, !.name = name, !.ok = ok,
                   !.raised = raised, !.saves = saves]

(***************************************************************************)
(* Inventory operations, each the whole call under DB_LOCK.  failAt is the *)
(* save of the call that raises (0: none does).                            *)
(***************************************************************************)
GetInventory(username, failAt) ==
    LET s == Sweep(Load(fresh), Load(expired), today)
        nsaves == IF s.err = "" /\ s.updates_needed THEN 2 ELSE 0
        raised == s.err # "" \/ failAt > 0
    IN /\ failAt <= nsaves
       /\ fresh' = IF nsaves = 0 THEN fresh ELSE Save(fresh, s.new_fresh, failAt = 1)
       /\ expired' = IF nsaves = 0 \/ failAt = 1 THEN expired
                     ELSE Save(expired, s.final_expired, failAt = 2)
       /\ last' = [Ended("get_inventory", username, 0, <<>>, ~raised, raised,
                         IF failAt = 0 THEN nsaves ELSE failAt - 1)
                     EXCEPT !.streak = IF raised THEN 0
                                      ELSE IF /\ last.op = "get_inventory"
                                              /\ last.ok
                                              /\ last.user = username
                                              /\ last.day = today
                                           THEN 2 ELSE 1,
                            !.fresh_out = IF raised THEN <<>> ELSE OwnedBy(s.new_fresh, username),
                            !.expired_out = IF raised THEN <<>>
                                            ELSE OwnedBy(s.final_expired, username)]
       /\ UNCHANGED <<categories, today, clock, concVars, saveVars, auxVars>>

AddItem(data, username, fails) ==
    LET item == NewItem(clock, data, username, today)
    IN /\ Len(Load(fresh)) + Len(Load(expired)) < MaxItems
       /\ fresh' = Save(fresh, Append(Load(fresh), item), fails)
       /\ last' = IF fails THEN Ended("add_item", username, 0, <<>>, FALSE, TRUE, 0)
                  ELSE [Ended("add_item", username, item.id, <<>>, TRUE, FALSE, 1)
                          EXCEPT !.item = <<item>>, !.data = <<data>>]
       /\ UNCHANGED <<expired, categories, today, clock, concVars, saveVars, auxVars>>

DeleteItem(item_id, username, fails) ==
    LET loaded == Load(fresh)
        new_fresh == WithoutItem(loaded, item_id, username)
        changed == Len(new_fresh) # Len(loaded)
    IN /\ fails => changed
       /\ fresh' = IF changed THEN Save(fresh, new_fresh, fails) ELSE fresh
       /\ last' = Ended("delete_item", username, item_id, <<>>, changed /\ ~fails, fails,
                        IF changed /\ ~fails THEN 1 ELSE 0)
       /\ UNCHANGED <<expired, categories, today, clock, concVars, saveVars, auxVars>>

(***************************************************************************)
(* Category operations.                                                    *)
(***************************************************************************)
\* The custom category names that the items of the model carry; deleted keeps
\* track of these names only
ItemCategories == {Snacks}

MaxCustom == 2       \* custom categories the file may hold before add_category is cut off

CustomCount == Len(LET Custom(c) == c.type = "custom" IN Filter(Load(categories), Custom))

\* get_categories takes no lock and writes nothing
GetCategories(username) ==
    /\ last' = [Ended("get_categories", username, 0, <<>>, TRUE, FALSE, 0)
                  EXCEPT !.cats_out = GetCategoriesResult(Load(categories), username)]
    /\ UNCHANGED <<files, today, clock, concVars, saveVars, auxVars>>

AddCategory(name, username, fails) ==
    LET all_cats == Load(categories)
        reason == DuplicateCheck(all_cats, name, username)
        new_cat == Category(IntId(clock), name, "custom", username)
    IN /\ CustomCount < MaxCustom
       /\ fails => reason = ""
       /\ categories' = IF reason = "" THEN Save(categories, Append(all_cats, new_cat), fails)
                        ELSE categories
       /\ last' = [Ended("add_category", username, 0, name, reason = "" /\ ~fails, fails,
                         IF reason = "" /\ ~fails THEN 1 ELSE 0)
                     EXCEPT !.cats_out = IF reason = "" /\ ~fails THEN <<new_cat>> ELSE <<>>]
       /\ deleted' = IF reason = "" /\ ~fails THEN deleted \ {<<username, name>>} ELSE deleted
       /\ UNCHANGED <<fresh, expired, today, clock, concVars, saveVars, users>>

DeleteCategory(name, username, failAt) ==
    LET all_cats == Load(categories)
        found == CatToDel(all_cats, name, username)
        dirtyF == found # <<>> /\ MigrateDirty(Load(fresh), name, username)
        dirtyE == found # <<>> /\ MigrateDirty(Load(expired), name, username)
        \* the saves the call reaches, in order: categories, fresh, expired
        order == (IF found # <<>> THEN <<"categories">> ELSE <<>>)
                 \o (IF dirtyF THEN <<"fresh">> ELSE <<>>)
                 \o (IF dirtyE THEN <<"expired">> ELSE <<>>)
        done == IF failAt = 0 THEN Len(order) ELSE failAt - 1
        Saved(key) == \E i \in 1..done : order[i] = key
    IN /\ failAt <= Len(order)
       /\ categories' = IF Saved("categories")
                        THEN Stored(WithoutCategory(all_cats, found[1])) ELSE categories
       /\ fresh' = IF Saved("fresh")
                   THEN Stored(MigrateItems(Load(fresh), name, username)) ELSE fresh
       /\ expired' = IF Saved("expired")
                     THEN Stored(MigrateItems(Load(expired), name, username)) ELSE expired
       /\ last' = Ended("delete_category", username, 0, name, found # <<>> /\ failAt = 0,
                        failAt > 0, done)
       /\ deleted' = IF Saved("categories") /\ name \in ItemCategories
                     THEN deleted \cup {<<username, name>>} ELSE deleted
       /\ UNCHANGED <<today, clock, concVars, saveVars, users>>

(***************************************************************************)
(* The environment: the clock, the calendar, and damage to a file.         *)
(***************************************************************************)
\* A microsecond passes.  Two calls with no Tick between them read the same
\* timestamp: add_item reads the clock before it takes DB_LOCK.
Tick ==
    /\ clock < MaxClock
    /\ clock' = clock + 1
    /\ UNCHANGED <<files, today, last, concVars, saveVars, auxVars>>

NextDay ==
    /\ today < StartDay + MaxDayAdvance
    /\ today' = today + 1
    /\ UNCHANGED <<files, clock, last, concVars, saveVars, auxVars>>

\* The categories file stops parsing (a torn disk block, an edit by hand).
\* No call did this: last no longer describes the collections.
CorruptCategories ==
    /\ categories.st = "ok"
    /\ categories' = CorruptFile
    /\ last' = [NoCall EXCEPT !.pre = [fresh |-> fresh, expired |-> expired,
                                       categories |-> CorruptFile]]
    /\ UNCHANGED <<fresh, expired, today, clock, concVars, saveVars, auxVars>>

(***************************************************************************)
(* Inputs of the calls and documents found on disk at start.               *)
(***************************************************************************)
ItemNames == {"Milk"}

\* expiry_date values a request may carry (the route rejects a falsy one):
\* thirty days ago, twenty-nine days ago, tomorrow, the shape of a date that is
\* none (2026-02-30), and a number
ExpInputs ==
    {StrfTime(StartDay - RetentionDays), StrfTime(StartDay - RetentionDays + 1),
     StrfTime(StartDay + 1), DateText(2026, 2, 30), OtherValue("num")}

ItemInputs(exps, cats) ==
    {[name |-> n, expiry_date |-> e, category |-> c] : n \in ItemNames, e \in exps, c \in cats}

\* Records written by an earlier version or by hand, as the tests seed them:
\* no category; expired yesterday, forty days ago, five days ago, a date that is text
OldCheese ==
    Item(100, "Old Cheese", StrfTime(StartDay - 1), NoCategory, "alice",
         DateText(2020, 1, 1), Missing)
Ancient ==
    Item(999, "Ancient Artifact", StrfTime(StartDay - 40), NoCategory, "alice",
         Missing, StrfTime(StartDay - 40))
Recent ==
    Item(997, "Yoghurt", StrfTime(StartDay - 5), NoCategory, "bob",
         Missing, StrfTime(StartDay - 4))
Unparsed ==
    Item(998, "Jam", OtherValue("text"), NoCategory, "bob", Missing, Missing)

IdsIn(items) == {items[i].id : i \in DOMAIN items}
KnownIds == IdsIn(Load(fresh)) \cup IdsIn(Load(expired)) \cup {0}

Threads == {"t1", "t2"}

\* DB_LOCK when no thread holds it, and a thread between two requests.  pc is
\* the statement the thread is at; f, e and c are its local copies of the
\* fresh, expired and categories documents; overlap says of an add_item call
\* that the other thread was in add_item when it began; raised says that a
\* save raised in the call, and stays until the thread's next call begins.
IdleLock == [owner |-> "none", count |-> 0]
IdleThread ==
    [pc |-> "idle", op |-> "none", user |-> "", id |-> 0, name |-> <<>>, item |-> <<>>,
     f |-> <<>>, e |-> <<>>, c |-> <<>>, overlap |-> FALSE, raised |-> FALSE]
IdleThreads == [t \in Threads |-> IdleThread]

\* The frame of DataManager.save when no save runs.  pc is the statement the
\* save is at, data the document to write, tmp the name of the temporary file
\* it created (0: none), bound whether 'temp_name' is in locals(), pre the
\* target as the call found it, leaked the temporary files of this save that
\* still exist after it raised.
IdleSave ==
    [pc |-> "idle", data |-> <<>>, tmp |-> 0, bound |-> FALSE, pre |-> AbsentFile]
IdleDisk == [target |-> AbsentFile, temps |-> {}]

(***************************************************************************)
(* Spec: the inventory operations, with every save succeeding.             *)
(***************************************************************************)
Init ==
    /\ fresh \in {Stored(<<>>), Stored(<<OldCheese>>)}
    /\ expired \in {Stored(<<>>), Stored(<<Ancient, Recent, Unparsed>>)}
    /\ categories = Stored(SeedCategories)
    /\ today = StartDay
    /\ clock = 1
    /\ last = [NoCall EXCEPT !.day = StartDay,
                              !.pre = [fresh |-> fresh, expired |-> expired,
                                       categories |-> categories]]
    /\ lock = IdleLock
    /\ thr = IdleThreads
    /\ shadow = [fresh |-> fresh, expired |-> expired, categories |-> categories]
    /\ disk = IdleDisk
    /\ sv = IdleSave
    /\ users = Stored(EmptyMapping)
    /\ deleted = {}

Next ==
    \/ Tick
    \/ NextDay
    \/ \E u \in Users : GetInventory(u, 0)
    \/ \E d \in ItemInputs(ExpInputs, {NoCategory}), u \in Users :
           AddItem(d, u, FALSE)
    \/ \E id \in KnownIds, u \in Users : DeleteItem(id, u, FALSE)

Spec == Init /\ [][Next]_vars

(***************************************************************************)
(* Claims about the inventory operations (checked under Spec).             *)
(***************************************************************************)
Occurs(x, seq) == \E i \in DOMAIN seq : seq[i] = x

\* out is seq restricted to the elements owned by username, order kept: the
\* i-th element of out is the element of seq at the i-th position owned by username
IsOwnerView(out, seq, username) ==
    LET mine == {k \in DOMAIN seq : seq[k].owner = username}
    IN /\ Len(out) = Cardinality(mine)
       /\ \A k \in mine : out[Cardinality({j \in mine : j <= k})] = seq[k]

\* C1 (as stated): whenever delete_item(id, B) ended and an item with that id
\* owned by some A # B was in the fresh collection, the call returned false and
\* A's item is still in the persisted fresh collection, unchanged.
C1_NoCrossUserDeletion ==
    (last.op = "delete_item" /\ ~last.raised) =>
        \A k \in DOMAIN Load(last.pre.fresh) :
            LET it == Load(last.pre.fresh)[k]
            IN (it.id = last.id /\ it.owner # last.user) =>
                   (~last.ok /\ Occurs(it, Load(fresh)))

\* The part of C1 the code keeps: the other owner's item stays, whatever is returned
C1_OtherOwnersItemStays ==
    (last.op = "delete_item") =>
        \A k \in DOMAIN Load(last.pre.fresh) :
            LET it == Load(last.pre.fresh)[k]
            IN (it.owner # last.user) => Occurs(it, Load(fresh))

\* C2: a get_inventory(username) that returned gives, for fresh and for expired,
\* exactly the items of the persisted (post-sweep) collection owned by username,
\* in stored order.
C2_OwnerView ==
    (last.op = "get_inventory" /\ last.ok) =>
        /\ IsOwnerView(last.fresh_out, Load(fresh), last.user)
        /\ IsOwnerView(last.expired_out, Load(expired), last.user)

\* C2's case: the stored fresh collection mixes two owners and the caller got
\* a proper, non-empty part of it
C2_Witness ==
    /\ last.op = "get_inventory" /\ last.ok
    /\ last.fresh_out # <<>>
    /\ Len(last.fresh_out) < Len(Load(fresh))

\* The items get_inventory looked at: those loaded from fresh and from expired
PreFresh == Load(last.pre.fresh)
PreExpired == Load(last.pre.expired)

\* The day a date-shaped value names, when it names one
IsCalendarDate(v) == StrpTime(v).err = ""
DayOf(v) == StrpTime(v).day

\* An item as get_inventory leaves it in fresh, and as it files it in expired
Healed(it) == IF it.category = NoCategory THEN [it EXCEPT !.category = General] ELSE it
Archived(it, day) == [Healed(it) EXCEPT !.archived_at = StrfTime(day)]

\* C6: after a get_inventory that returned, every item that was in fresh with a
\* calendar expiry_date before today but inside the retention window is out of
\* fresh and in expired, stamped archived_at = today; every item that was in
\* fresh with a calendar expiry_date of today or later is still in fresh.
C6_ExpirySweep ==
    (last.op = "get_inventory" /\ last.ok) =>
        \A k \in DOMAIN PreFresh :
            LET it == PreFresh[k]
                exp == it.expiry_date
            IN IsCalendarDate(exp) =>
                   /\ (DayOf(exp) < last.day /\ last.day < DayOf(exp) + 30) =>
                          (/\ ~Occurs(it, Load(fresh))
                           /\ ~Occurs(Healed(it), Load(fresh))
                           /\ Occurs(Archived(it, last.day), Load(expired)))
                   /\ (DayOf(exp) >= last.day) => Occurs(Healed(it), Load(fresh))

\* C6's case: one call moved an item that expired before the day of the call
\* to expired and kept an item that expires on that day
C6_Witness ==
    /\ last.op = "get_inventory" /\ last.ok
    /\ \E k \in DOMAIN PreFresh :
           /\ IsCalendarDate(PreFresh[k].expiry_date)
           /\ DayOf(PreFresh[k].expiry_date) < last.day
           /\ Occurs(Archived(PreFresh[k], last.day), Load(expired))
    /\ \E k \in DOMAIN PreFresh :
           /\ IsCalendarDate(PreFresh[k].expiry_date)
           /\ DayOf(PreFresh[k].expiry_date) = last.day
           /\ Occurs(PreFresh[k], Load(fresh))

\* The items the purge pass of the last get_inventory went over: those loaded
\* from expired and those it had just moved out of fresh
PurgeCandidates ==
    {PreExpired[k] : k \in DOMAIN PreExpired}
        \cup {Archived(PreFresh[k], last.day) :
                k \in {j \in DOMAIN PreFresh :
                         /\ IsCalendarDate(PreFresh[j].expiry_date)
                         /\ DayOf(PreFresh[j].expiry_date) < last.day}}

\* C7: after a get_inventory that returned, an expired item whose expiry_date
\* plus 30 days is on or before today is gone from the persisted collections,
\* and one whose expiry_date plus 30 days is after today is still in expired.
C7_Purge ==
    (last.op = "get_inventory" /\ last.ok) =>
        \A x \in PurgeCandidates :
            IsCalendarDate(x.expiry_date) =>
                /\ (DayOf(x.expiry_date) + 30 <= last.day) =>
                       (/\ ~Occurs(x, Load(expired))
                        /\ ~Occurs(Healed(x), Load(expired))
                        /\ ~Occurs(Healed(x), Load(fresh)))
                /\ (DayOf(x.expiry_date) + 30 > last.day) =>
                       Occurs(Healed(x), Load(expired))

\* C7's case: one call dropped an item that expired exactly 30 days before and
\* kept an item that expired 29 days before
C7_Witness ==
    /\ last.op = "get_inventory" /\ last.ok
    /\ \E x \in PurgeCandidates :
           /\ IsCalendarDate(x.expiry_date)
           /\ DayOf(x.expiry_date) + 30 = last.day
           /\ ~Occurs(Healed(x), Load(expired))
    /\ \E y \in PurgeCandidates :
           /\ IsCalendarDate(y.expiry_date)
           /\ DayOf(y.expiry_date) + 29 = last.day
           /\ Occurs(Healed(y), Load(expired))

\* C8: when get_inventory returns to the same user twice on one day with no
\* call between, the second call returns what the first returned and writes
\* nothing: both persisted collections are as the first call left them.
C8_SelfHealIdempotent ==
    [][(last'.op = "get_inventory" /\ last'.ok /\ last'.streak = 2) =>
          (/\ last'.saves = 0
           /\ fresh' = fresh
           /\ expired' = expired
           /\ last'.fresh_out = last.fresh_out
           /\ last'.expired_out = last.expired_out)]_vars

\* C8's case: a second call in a row, after a first that healed a category,
\* moved an item to expired and purged others
C8_Witness ==
    /\ last.op = "get_inventory" /\ last.ok /\ last.streak = 2
    /\ Occurs(Healed(Recent), Load(expired))
    /\ ~Occurs(Ancient, Load(expired))
    /\ Occurs(Archived(OldCheese, last.day), Load(expired))

(***************************************************************************)
(* SpecCat: the category operations, on empty item collections.            *)
(***************************************************************************)
\* Names a request may carry: a system name, a system name in lower case, and
\* a custom name in two spellings
CatNameInputs == {Food, FoodLower, Snacks, SnacksLower}

InitCat ==
    /\ fresh = Stored(<<>>)
    /\ expired = Stored(<<>>)
    /\ categories = Stored(SeedCategories)
    /\ today = StartDay
    /\ clock = 1
    /\ last = [NoCall EXCEPT !.day = StartDay,
                             !.pre = [fresh |-> fresh, expired |-> expired,
                                      categories |-> categories]]
    /\ lock = IdleLock
    /\ thr = IdleThreads
    /\ shadow = [fresh |-> fresh, expired |-> expired, categories |-> categories]
    /\ disk = IdleDisk
    /\ sv = IdleSave
    /\ users = Stored(EmptyMapping)
    /\ deleted = {}

NextCat ==
    \/ Tick
    \/ CorruptCategories
    \/ \E u \in Users : GetCategories(u)
    \/ \E n \in CatNameInputs, u \in Users : AddCategory(n, u, FALSE)
    \/ \E n \in CatNameInputs, u \in Users : DeleteCategory(n, u, 0)

SpecCat == InitCat /\ [][NextCat]_vars

(***************************************************************************)
(* Claims about the category operations (checked under SpecCat).           *)
(***************************************************************************)
\* name equals, case-insensitively, the name of a system category
IsSystemName(name) ==
    \E i \in DOMAIN DEFAULT_CATEGORIES : Lower(DEFAULT_CATEGORIES[i].name) = Lower(name)

\* C9 (as stated): add_category with a name that equals a system category's
\* name, case-insensitively, fails and leaves the categories collection as it
\* was, whatever the state of the collection.
C9_SystemNameRejected ==
    (last.op = "add_category" /\ ~last.raised /\ IsSystemName(last.name)) =>
        (~last.ok /\ categories = last.pre.categories)

\* What the code does keep of C9: the name is rejected while the stored
\* document still holds the system entries
C9_RejectedWhileSeeded ==
    (/\ last.op = "add_category" /\ IsSystemName(last.name)
     /\ \A i \in DOMAIN SeedCategories : Occurs(SeedCategories[i], Load(last.pre.categories)))
        => (~last.ok /\ categories = last.pre.categories)

\* C10 (as stated): get_categories(username) holds every system category; its
\* other entries are custom categories owned by username; no custom entry has a
\* name that collides, case-insensitively, with a system name; and the entries
\* are in ascending order of name.
C10_GetCategories ==
    (last.op = "get_categories") =>
        LET out == last.cats_out
        IN /\ \A i \in DOMAIN DEFAULT_CATEGORIES :
                  \E j \in DOMAIN out :
                      out[j].name = DEFAULT_CATEGORIES[i].name /\ out[j].type = "system"
           /\ \A j \in DOMAIN out :
                  out[j].type # "system" =>
                      (/\ out[j].type = "custom"
                       /\ out[j].owner = last.user
                       /\ ~IsSystemName(out[j].name))
           /\ \A j \in DOMAIN out : \A k \in DOMAIN out :
                  j < k => (StrLess(out[j].name, out[k].name) \/ out[j].name = out[k].name)

\* What the code does keep of C10: everything but the case-insensitive test
C10_ExactNamesOnly ==
    (last.op = "get_categories") =>
        LET out == last.cats_out
        IN /\ \A i \in DOMAIN DEFAULT_CATEGORIES :
                  \E j \in DOMAIN out :
                      out[j].name = DEFAULT_CATEGORIES[i].name /\ out[j].type = "system"
           /\ \A j \in DOMAIN out :
                  out[j].type # "system" =>
                      (/\ out[j].type = "custom"
                       /\ out[j].owner = last.user
                       /\ \A i \in DOMAIN DEFAULT_CATEGORIES :
                              out[j].name # DEFAULT_CATEGORIES[i].name)
           /\ \A j \in DOMAIN out : \A k \in DOMAIN out :
                  j < k => StrLess(out[j].name, out[k].name)

(***************************************************************************)
(* SpecSave: DataManager.save, statement by statement.                     *)
(*                                                                         *)
(* disk.target is the file at filepath; disk.temps the temporary files in  *)
(* its directory, each [name, doc, n]: the first n chunks of the JSON text *)
(* of doc.  json.dump writes one chunk per element and one to close, so    *)
(* the text is whole after Len(doc) + 1 chunks.  shutil.move is taken as   *)
(* the rename it is inside one directory: it replaces the target in one    *)
(* step or raises and changes nothing.                                     *)
(***************************************************************************)
MaxTemps == 2        \* temporary files that may pile up before save is cut off

\* Documents handed to save
SaveDocs == {<<>>, <<1>>, <<1, 2>>}

Chunks(doc) == Len(doc) + 1
Whole(f) == f.n = Chunks(f.doc)

TempNames == {f.name : f \in disk.temps}
TempFile(name) == CHOOSE f \in disk.temps : f.name = name

\* What a file of the directory reads as once it sits at filepath
AsTarget(f) == IF Whole(f) THEN Stored(f.doc) ELSE CorruptFile

\* Faulty variant: json.dump writes into the target itself: open(filepath, 'w')
AfterChunkInPlace(d, name) ==
    LET f == CHOOSE g \in d.temps : g.name = name
        g == [f EXCEPT !.n = f.n + 1]
    IN [target |-> AsTarget(g), temps |-> (d.temps \ {f}) \cup {g}]

\* The directory after json.dump wrote one more chunk to the temporary file
AfterChunk(d, name) ==
    LET f == CHOOSE g \in d.temps : g.name = name
    IN [d EXCEPT !.temps = (d.temps \ {f}) \cup {[f EXCEPT !.n = f.n + 1]}]

\* save(filepath, data) is called
SaveCall(data) ==
    /\ sv.pc = "idle"
    /\ Cardinality(disk.temps) < MaxTemps
    /\ sv' = [IdleSave EXCEPT !.pc = "create", !.data = data, !.pre = disk.target]
    /\ UNCHANGED <<disk, svcVars, concVars, auxVars>>

\* tempfile.NamedTemporaryFile('w', dir=dir_name, delete=False): a new, empty
\* file under a name not in use
SaveCreate ==
    /\ sv.pc = "create"
    /\ LET name == CHOOSE n \in 1..(MaxTemps + 1) : n \notin TempNames
       IN /\ disk' = [disk EXCEPT !.temps = @ \cup {[name |-> name, doc |-> sv.data, n |-> 0]}]
          /\ sv' = [sv EXCEPT !.pc = "dump", !.tmp = name]
    /\ UNCHANGED <<svcVars, concVars, auxVars>>

\* json.dump(data, tmp_file, indent=4), a chunk at a time
SaveDump ==
    /\ sv.pc = "dump"
    /\ disk' = AfterChunk(disk, sv.tmp)
    /\ sv' = IF TempFile(sv.tmp).n + 1 = Chunks(sv.data) THEN [sv EXCEPT !.pc = "bind"] ELSE sv
    /\ UNCHANGED <<svcVars, concVars, auxVars>>

\* temp_name = tmp_file.name
SaveBind ==
    /\ sv.pc = "bind"
    /\ sv' = [sv EXCEPT !.pc = "flush", !.bound = TRUE]
    /\ UNCHANGED <<disk, svcVars, concVars, auxVars>>

\* tmp_file.flush(); os.fsync(tmp_file.fileno()); the with block closes the file
SaveFlush ==
    /\ sv.pc = "flush"
    /\ sv' = [sv EXCEPT !.pc = "move"]
    /\ UNCHANGED <<disk, svcVars, concVars, auxVars>>

\* shutil.move(temp_name, filepath), then save returns
SaveMove ==
    /\ sv.pc = "move"
    /\ disk' = [target |-> AsTarget(TempFile(sv.tmp)),
                temps |-> disk.temps \ {TempFile(sv.tmp)}]
    /\ sv' = [sv EXCEPT !.pc = "returned"]
    /\ UNCHANGED <<svcVars, concVars, auxVars>>

\* A statement of the try block raises (no space left, no permission, a value
\* json cannot encode): control goes to the except clause.  NamedTemporaryFile
\* raising leaves no file; json.dump raising leaves the with block, which
\* closes the file and keeps it (delete=False).
SaveRaise ==
    /\ sv.pc \in {"create", "dump", "flush", "move"}
    /\ sv' = [sv EXCEPT !.pc = "except"]
    /\ UNCHANGED <<disk, svcVars, concVars, auxVars>>

\* except Exception: if 'temp_name' in locals() and os.path.exists(temp_name):
\* os.remove(temp_name); then raise e
SaveExcept ==
    /\ sv.pc = "except"
    /\ disk' = IF sv.bound /\ sv.tmp \in TempNames
               THEN [disk EXCEPT !.temps = @ \ {TempFile(sv.tmp)}] ELSE disk
    /\ sv' = [sv EXCEPT !.pc = "raised"]
    /\ UNCHANGED <<svcVars, concVars, auxVars>>

\* The process is killed inside save, before the rename (power loss, SIGKILL):
\* no handler runs
SaveKilled ==
    /\ sv.pc \in {"create", "dump", "bind", "flush", "move", "except"}
    /\ sv' = [sv EXCEPT !.pc = "killed"]
    /\ UNCHANGED <<disk, svcVars, concVars, auxVars>>

\* The caller goes on (or the process starts again) and may save again
SaveDone ==
    /\ sv.pc \in {"returned", "raised", "killed"}
    /\ sv' = IdleSave
    /\ UNCHANGED <<disk, svcVars, concVars, auxVars>>

InitSave ==
    /\ fresh = Stored(<<>>)
    /\ expired = Stored(<<>>)
    /\ categories = Stored(SeedCategories)
    /\ today = StartDay
    /\ clock = 1
    /\ last = [NoCall EXCEPT !.day = StartDay,
                             !.pre = [fresh |-> fresh, expired |-> expired,
                                      categories |-> categories]]
    /\ lock = IdleLock
    /\ thr = IdleThreads
    /\ shadow = [fresh |-> fresh, expired |-> expired, categories |-> categories]
    /\ disk \in {[target |-> t, temps |-> {}] : t \in {AbsentFile, Stored(<<1>>)}}
    /\ sv = IdleSave
    /\ users = Stored(EmptyMapping)
    /\ deleted = {}

NextSave ==
    \/ \E data \in SaveDocs : SaveCall(data)
    \/ SaveCreate
    \/ SaveDump
    \/ SaveBind
    \/ SaveFlush
    \/ SaveMove
    \/ SaveRaise
    \/ SaveExcept
    \/ SaveKilled
    \/ SaveDone

SpecSave == InitSave /\ [][NextSave]_vars

(***************************************************************************)
(* Claims about DataManager.save (checked under SpecSave).                 *)
(***************************************************************************)
\* C3: while a save has not renamed, and after it raised or was killed before
\* the rename, the target is the document it was when save was called; and the
\* target never holds a partly written text: a reader gets the old document or
\* the new one.
C3_AtomicSave ==
    /\ disk.target.st # "corrupt"
    /\ (sv.pc \in {"create", "dump", "bind", "flush", "move", "except", "raised", "killed"})
           => disk.target = sv.pre
    /\ (sv.pc = "returned") => disk.target = Stored(sv.data)

\* C3's case: the save was stopped after the temporary file was fully written,
\* before the rename, over a target that held another document
C3_Witness ==
    /\ sv.pc \in {"raised", "killed"}
    /\ sv.bound
    /\ sv.pre.st = "ok"
    /\ sv.pre # Stored(sv.data)
    /\ disk.target = sv.pre

\* C4 (as stated): when save raised, the temporary file that save created no
\* longer exists.
C4_TempFileRemoved ==
    (sv.pc = "raised") => sv.tmp \notin TempNames

\* What the code does keep of C4: the file is removed when the failure comes
\* after temp_name was assigned
C4_RemovedOnceBound ==
    (sv.pc = "raised" /\ sv.bound) => sv.tmp \notin TempNames

(***************************************************************************)
(* Concurrent requests.  The server runs every request on a thread of its  *)
(* own; the mutating service methods run inside `with DB_LOCK`.  One       *)
(* action per statement that touches the lock or a file; what a method     *)
(* computes between a load and the next save is folded into the load.      *)
(***************************************************************************)
\* The calls as transformations of the three collections: what one call
\* leaves behind when nothing else runs meanwhile.
SeqAddItem(s, item) == [s EXCEPT !.fresh = Stored(Append(Load(s.fresh), item))]

SeqDeleteItem(s, item_id, username) ==
    LET new_fresh == WithoutItem(Load(s.fresh), item_id, username)
    IN IF Len(new_fresh) # Len(Load(s.fresh)) THEN [s EXCEPT !.fresh = Stored(new_fresh)] ELSE s

SeqGetInventory(s, day) ==
    LET r == Sweep(Load(s.fresh), Load(s.expired), day)
    IN IF r.err = "" /\ r.updates_needed
       THEN [s EXCEPT !.fresh = Stored(r.new_fresh), !.expired = Stored(r.final_expired)]
       ELSE s

SeqAddCategory(s, name, username, id) ==
    IF DuplicateCheck(Load(s.categories), name, username) = ""
    THEN [s EXCEPT !.categories =
              Stored(Append(Load(s.categories), Category(IntId(id), name, "custom", username)))]
    ELSE s

SeqDeleteCategory(s, name, username) ==
    LET found == CatToDel(Load(s.categories), name, username)
        Migrated(file) == IF MigrateDirty(Load(file), name, username)
                          THEN Stored(MigrateItems(Load(file), name, username)) ELSE file
    IN IF found = <<>> THEN s
       ELSE [fresh |-> Migrated(s.fresh), expired |-> Migrated(s.expired),
             categories |-> Stored(WithoutCategory(Load(s.categories), found[1]))]

Other(t) == CHOOSE u \in Threads : u # t
Pending(op) == Cardinality({t \in Threads : thr[t].pc # "idle" /\ thr[t].op = op})
Call(t, op, username) ==
    [IdleThread EXCEPT !.pc = "acquire", !.op = op, !.user = username,
                       !.overlap = op = "add_item" /\ thr[Other(t)].op = "add_item"]

\* Faulty variant: the methods run without DB_LOCK
CanAcquireAlways(l, t) == TRUE

\* threading.RLock.acquire returns when the lock is free or the caller's own
CanAcquire(l, t) == l.owner = "none" \/ l.owner = t

\* add_item builds the record, id from the clock, before it asks for DB_LOCK
BeginAddItem(t, data, username) ==
    /\ thr[t].pc = "idle"
    /\ Len(Load(fresh)) + Len(Load(expired)) + Pending("add_item") < MaxItems
    /\ thr' = [thr EXCEPT ![t] = [Call(t, "add_item", username) EXCEPT
                                     !.item = <<NewItem(clock, data, username, today)>>]]
    /\ UNCHANGED <<files, today, clock, last, lock, shadow, saveVars, auxVars>>

BeginDeleteItem(t, item_id, username) ==
    /\ thr[t].pc = "idle"
    /\ thr' = [thr EXCEPT ![t] = [Call(t, "delete_item", username) EXCEPT !.id = item_id]]
    /\ UNCHANGED <<files, today, clock, last, lock, shadow, saveVars, auxVars>>

BeginGetInventory(t, username) ==
    /\ thr[t].pc = "idle"
    /\ thr' = [thr EXCEPT ![t] = Call(t, "get_inventory", username)]
    /\ UNCHANGED <<files, today, clock, last, lock, shadow, saveVars, auxVars>>

BeginAddCategory(t, name, username) ==
    /\ thr[t].pc = "idle"
    /\ CustomCount + Pending("add_category") < MaxCustom
    /\ thr' = [thr EXCEPT ![t] = [Call(t, "add_category", username) EXCEPT !.name = name]]
    /\ UNCHANGED <<files, today, clock, last, lock, shadow, saveVars, auxVars>>

BeginDeleteCategory(t, name, username) ==
    /\ thr[t].pc = "idle"
    /\ thr' = [thr EXCEPT ![t] = [Call(t, "delete_category", username) EXCEPT !.name = name]]
    /\ UNCHANGED <<files, today, clock, last, lock, shadow, saveVars, auxVars>>

\* with DB_LOCK: __enter__
Acquire(t) ==
    /\ thr[t].pc = "acquire"
    /\ CanAcquire(lock, t)
    /\ lock' = [owner |-> t, count |-> IF lock.owner = t THEN lock.count + 1 ELSE 1]
    /\ thr' = [thr EXCEPT ![t].pc = "load"]
    /\ UNCHANGED <<files, today, clock, last, shadow, saveVars, auxVars>>

\* fresh = load('fresh'); fresh.append(item)
LoadAddItem(t) ==
    /\ thr[t].pc = "load" /\ thr[t].op = "add_item"
    /\ thr' = [thr EXCEPT ![t].f = Append(Load(fresh), thr[t].item[1]),
                          ![t].pc = "save_fresh"]
    /\ shadow' = SeqAddItem(shadow, thr[t].item[1])
    /\ UNCHANGED <<files, today, clock, last, lock, saveVars, auxVars>>

\* fresh = load('fresh'); new_fresh = [...]; if len(fresh) != len(new_fresh)
LoadDeleteItem(t) ==
    LET new_fresh == WithoutItem(Load(fresh), thr[t].id, thr[t].user)
    IN /\ thr[t].pc = "load" /\ thr[t].op = "delete_item"
       /\ thr' = [thr EXCEPT ![t].f = new_fresh,
                             ![t].pc = IF Len(new_fresh) # Len(Load(fresh))
                                       THEN "save_fresh" ELSE "release"]
       /\ shadow' = SeqDeleteItem(shadow, thr[t].id, thr[t].user)
       /\ UNCHANGED <<files, today, clock, last, lock, saveVars, auxVars>>

\* all_fresh = load('fresh'); all_expired = load('expired'); the two passes
LoadGetInventory(t) ==
    LET r == Sweep(Load(fresh), Load(expired), today)
    IN /\ thr[t].pc = "load" /\ thr[t].op = "get_inventory"
       /\ thr' = [thr EXCEPT ![t].f = r.new_fresh, ![t].e = r.final_expired,
                             ![t].pc = IF r.err = "" /\ r.updates_needed
                                       THEN "save_fresh" ELSE "release"]
       /\ shadow' = SeqGetInventory(shadow, today)
       /\ UNCHANGED <<files, today, clock, last, lock, saveVars, auxVars>>

\* all_cats = load('categories'); the duplicate check; all_cats.append(new_cat)
LoadAddCategory(t) ==
    LET all_cats == Load(categories)
        new_cat == Category(IntId(clock), thr[t].name, "custom", thr[t].user)
    IN /\ thr[t].pc = "load" /\ thr[t].op = "add_category"
       /\ thr' = [thr EXCEPT ![t].c = Append(all_cats, new_cat),
                             ![t].pc = IF DuplicateCheck(all_cats, thr[t].name, thr[t].user) = ""
                                       THEN "save_cats" ELSE "release"]
       /\ shadow' = SeqAddCategory(shadow, thr[t].name, thr[t].user, clock)
       /\ UNCHANGED <<files, today, clock, last, lock, saveVars, auxVars>>

\* all_cats = load('categories'); cat_to_del = next(...); new_cats = [...]
LoadDeleteCategory(t) ==
    LET all_cats == Load(categories)
        found == CatToDel(all_cats, thr[t].name, thr[t].user)
    IN /\ thr[t].pc = "load" /\ thr[t].op = "delete_category"
       /\ thr' = [thr EXCEPT ![t].c = IF found = <<>> THEN all_cats
                                      ELSE WithoutCategory(all_cats, found[1]),
                             ![t].pc = IF found = <<>> THEN "release" ELSE "save_cats"]
       /\ shadow' = SeqDeleteCategory(shadow, thr[t].name, thr[t].user)
       /\ UNCHANGED <<files, today, clock, last, lock, saveVars, auxVars>>

\* save('categories', ...)
SaveCats(t) ==
    /\ thr[t].pc = "save_cats"
    /\ categories' = Stored(thr[t].c)
    /\ thr' = [thr EXCEPT ![t].pc = IF thr[t].op = "delete_category"
                                    THEN "mig_fresh" ELSE "release"]
    /\ UNCHANGED <<fresh, expired, today, clock, last, lock, shadow, saveVars, auxVars>>

\* migrate_items('fresh'): items = load('fresh'); the loop; if dirty
MigFresh(t) ==
    /\ thr[t].pc = "mig_fresh"
    /\ thr' = [thr EXCEPT ![t].f = MigrateItems(Load(fresh), thr[t].name, thr[t].user),
                          ![t].pc = IF MigrateDirty(Load(fresh), thr[t].name, thr[t].user)
                                    THEN "save_fresh" ELSE "mig_expired"]
    /\ UNCHANGED <<files, today, clock, last, lock, shadow, saveVars, auxVars>>

\* save('fresh', ...)
SaveFresh(t) ==
    /\ thr[t].pc = "save_fresh"
    /\ fresh' = Stored(thr[t].f)
    /\ thr' = [thr EXCEPT ![t].pc = IF thr[t].op = "get_inventory" THEN "save_expired"
                                    ELSE IF thr[t].op = "delete_category" THEN "mig_expired"
                                    ELSE "release"]
    /\ UNCHANGED <<expired, categories, today, clock, last, lock, shadow, saveVars, auxVars>>

\* migrate_items('expired')
MigExpired(t) ==
    /\ thr[t].pc = "mig_expired"
    /\ thr' = [thr EXCEPT ![t].e = MigrateItems(Load(expired), thr[t].name, thr[t].user),
                          ![t].pc = IF MigrateDirty(Load(expired), thr[t].name, thr[t].user)
                                    THEN "save_expired" ELSE "release"]
    /\ UNCHANGED <<files, today, clock, last, lock, shadow, saveVars, auxVars>>

\* save('expired', ...)
SaveExpired(t) ==
    /\ thr[t].pc = "save_expired"
    /\ expired' = Stored(thr[t].e)
    /\ thr' = [thr EXCEPT ![t].pc = "release"]
    /\ UNCHANGED <<fresh, categories, today, clock, last, lock, shadow, saveVars, auxVars>>

\* Faulty variant: the lock stays with the thread whose save raised
ReleasedUnlessRaised(l, t) ==
    IF l.owner # t \/ thr[t].raised THEN l
    ELSE IF l.count > 1 THEN [l EXCEPT !.count = l.count - 1]
    ELSE IdleLock

\* threading.RLock.release by thread t
Released(l, t) ==
    IF l.owner # t THEN l
    ELSE IF l.count > 1 THEN [l EXCEPT !.count = l.count - 1]
    ELSE IdleLock

\* with DB_LOCK: __exit__, and the method returns or the exception goes on to
\* the caller
Release(t) ==
    /\ thr[t].pc = "release"
    /\ lock' = Released(lock, t)
    /\ thr' = [thr EXCEPT ![t] = [IdleThread EXCEPT !.raised = thr[t].raised]]
    /\ UNCHANGED <<files, today, clock, last, shadow, saveVars, auxVars>>

ConcExpInputs == {StrfTime(StartDay - 1)}

InitConc ==
    /\ fresh = Stored(<<>>)
    /\ expired = Stored(<<>>)
    /\ categories = Stored(SeedCategories)
    /\ today = StartDay
    /\ clock = 1
    /\ last = [NoCall EXCEPT !.day = StartDay,
                             !.pre = [fresh |-> fresh, expired |-> expired,
                                      categories |-> categories]]
    /\ lock = IdleLock
    /\ thr = IdleThreads
    /\ shadow = [fresh |-> fresh, expired |-> expired, categories |-> categories]
    /\ disk = IdleDisk
    /\ sv = IdleSave
    /\ users = Stored(EmptyMapping)
    /\ deleted = {}

\* The thread that serves each user's requests
Serves == [t \in Threads |-> IF t = "t1" THEN "alice" ELSE "bob"]

NextConc ==
    \/ \E t \in Threads, d \in ItemInputs(ConcExpInputs, {Snacks}) : BeginAddItem(t, d, Serves[t])
    \/ \E t \in Threads, id \in KnownIds : BeginDeleteItem(t, id, Serves[t])
    \/ \E t \in Threads : BeginGetInventory(t, Serves[t])
    \/ \E t \in Threads : BeginAddCategory(t, Snacks, Serves[t])
    \/ \E t \in Threads : BeginDeleteCategory(t, Snacks, Serves[t])
    \/ \E t \in Threads : Acquire(t)
    \/ \E t \in Threads : LoadAddItem(t)
    \/ \E t \in Threads : LoadDeleteItem(t)
    \/ \E t \in Threads : LoadGetInventory(t)
    \/ \E t \in Threads : LoadAddCategory(t)
    \/ \E t \in Threads : LoadDeleteCategory(t)
    \/ \E t \in Threads : SaveCats(t)
    \/ \E t \in Threads : MigFresh(t)
    \/ \E t \in Threads : SaveFresh(t)
    \/ \E t \in Threads : MigExpired(t)
    \/ \E t \in Threads : SaveExpired(t)
    \/ \E t \in Threads : Release(t)

SpecConc == InitConc /\ [][NextConc]_vars

Inside(t) == thr[t].pc \notin {"idle", "acquire"}

\* C5: the mutating calls run under DB_LOCK, so the steps of two calls never
\* interleave: at most one thread is between its load and its release, and
\* whenever none is, the three persisted collections are what the calls made
\* so far leave when run one after the other in the order they took the lock.
C5_Serialized ==
    /\ Cardinality({t \in Threads : Inside(t)}) <= 1
    /\ (\A t \in Threads : ~Inside(t)) => Snapshot = shadow

\* An add_item call that began while the other thread was in add_item has
\* saved, and fresh holds the items of both callers
C5_Witness ==
    \E t \in Threads :
        /\ thr[t].pc = "release" /\ thr[t].op = "add_item" /\ thr[t].overlap
        /\ Len(Load(fresh)) = 2
        /\ Occurs(thr[t].item[1], Load(fresh))
        /\ \E i \in DOMAIN Load(fresh) : Load(fresh)[i].owner = Serves[Other(t)]

(***************************************************************************)
(* Items and categories together: the inventory and the category calls of  *)
(* two users on one store.                                                 *)
(***************************************************************************)
MigExpInputs == {StrfTime(StartDay - 1)}

InitMig ==
    /\ fresh = Stored(<<>>)
    /\ expired = Stored(<<>>)
    /\ categories = Stored(SeedCategories)
    /\ today = StartDay
    /\ clock = 1
    /\ last = [NoCall EXCEPT !.day = StartDay,
                             !.pre = [fresh |-> fresh, expired |-> expired,
                                      categories |-> categories]]
    /\ lock = IdleLock
    /\ thr = IdleThreads
    /\ shadow = [fresh |-> fresh, expired |-> expired, categories |-> categories]
    /\ disk = IdleDisk
    /\ sv = IdleSave
    /\ users = Stored(EmptyMapping)
    /\ deleted = {}

NextMig ==
    \/ Tick
    \/ \E u \in Users : GetInventory(u, 0)
    \/ \E d \in ItemInputs(MigExpInputs, {NoCategory} \cup ItemCategories), u \in Users :
           AddItem(d, u, FALSE)
    \/ \E n \in ItemCategories, u \in Users : AddCategory(n, u, FALSE)
    \/ \E n \in ItemCategories \cup {Food}, u \in Users : DeleteCategory(n, u, 0)

SpecMig == InitMig /\ [][NextMig]_vars

(***************************************************************************)
(* Claims about items and categories together (checked under SpecMig).     *)
(***************************************************************************)
\* The items of a collection after delete_category(name, username), as the
\* claim states them: the caller's items of that category are in General,
\* every other item is as it was
MigratedAsClaimed(before, after, name, username) ==
    /\ Len(after) = Len(before)
    /\ \A i \in DOMAIN before :
           after[i] = IF before[i].owner = username /\ before[i].category = name
                      THEN [before[i] EXCEPT !.category = General]
                      ELSE before[i]

\* C11: after a successful delete_category(name, username) every item of
\* username in fresh and in expired whose category was name has category
\* General, and every item of another owner, also one of the same category
\* name, is unchanged.
C11_OrphanMigration ==
    (last.op = "delete_category" /\ last.ok) =>
        /\ MigratedAsClaimed(Load(last.pre.fresh), Load(fresh), last.name, last.user)
        /\ MigratedAsClaimed(Load(last.pre.expired), Load(expired), last.name, last.user)

\* C11's case: the deleted category was carried by an item of the caller and by
\* an item of another owner
C11_Witness ==
    /\ last.op = "delete_category" /\ last.ok
    /\ \E i \in DOMAIN Load(last.pre.fresh) \cup DOMAIN Load(last.pre.expired) :
       \E file \in {last.pre.fresh, last.pre.expired} :
           /\ i \in DOMAIN Load(file)
           /\ Load(file)[i].owner = last.user /\ Load(file)[i].category = last.name
    /\ \E i \in DOMAIN Load(fresh) :
           Load(fresh)[i].owner # last.user /\ Load(fresh)[i].category = last.name

\* A custom category of exactly that name owned by username is stored
OwnsCustom(cats, name, username) ==
    \E i \in DOMAIN cats :
        cats[i].name = name /\ cats[i].owner = username /\ cats[i].type = "custom"

\* Every system category and every category of another owner in before is in
\* after, unchanged
OthersKept(before, after, username) ==
    \A i \in DOMAIN before :
        (before[i].type = "system" \/ before[i].owner # username) => Occurs(before[i], after)

\* C12 (as stated): delete_category(name, username) succeeds exactly when a
\* custom category of exactly that name is owned by username; when it fails it
\* changes no collection; and in both cases every system category and every
\* category of another owner is still stored, unchanged.
C12_DeleteCategory ==
    (last.op = "delete_category" /\ ~last.raised) =>
        /\ last.ok = OwnsCustom(Load(last.pre.categories), last.name, last.user)
        /\ ~last.ok => Snapshot = last.pre
        /\ OthersKept(Load(last.pre.categories), Load(categories), last.user)

\* What the code does keep of C12: success exactly for the caller's own custom
\* category, no change on failure, and every category whose id differs from the
\* deleted one's stays
C12_OtherIdsKept ==
    (last.op = "delete_category" /\ ~last.raised) =>
        /\ last.ok = OwnsCustom(Load(last.pre.categories), last.name, last.user)
        /\ ~last.ok => Snapshot = last.pre
        /\ LET before == Load(last.pre.categories)
               gone == CatToDel(before, last.name, last.user)
           IN \A i \in DOMAIN before :
                  (gone = <<>> \/ before[i].id # gone[1].id) => Occurs(before[i], Load(categories))

(***************************************************************************)
(* Further claims about the inventory calls (checked under Spec).          *)
(***************************************************************************)
\* C13 (as stated): the ids of the items in the fresh collection are pairwise
\* distinct, however quickly the add_item calls follow one another.
C13_UniqueIds ==
    \A i \in DOMAIN Load(fresh) : \A j \in DOMAIN Load(fresh) :
        i # j => Load(fresh)[i].id # Load(fresh)[j].id

(***************************************************************************)
(* Saves that raise: DataManager.save re-raises what went wrong, and the   *)
(* service methods do not catch it.  A call that saves several times can   *)
(* be stopped at any of its saves.                                         *)
(***************************************************************************)
NextFail ==
    \/ \E u \in Users, failAt \in 0..2 : GetInventory(u, failAt)
    \/ \E d \in ItemInputs(MigExpInputs, ItemCategories), u \in Users, fails \in BOOLEAN :
           AddItem(d, u, fails)
    \/ \E id \in KnownIds, u \in Users, fails \in BOOLEAN : DeleteItem(id, u, fails)
    \/ \E n \in ItemCategories, u \in Users, fails \in BOOLEAN : AddCategory(n, u, fails)
    \/ \E n \in ItemCategories, u \in Users, failAt \in 0..3 : DeleteCategory(n, u, failAt)

SpecFail == InitMig /\ [][NextFail]_vars

\* C14 (as stated): when a save fails during a call, the call raises and the
\* three collections are as they were before the call started.
C14_NeverPartiallyApplied ==
    last.raised => Snapshot = last.pre

\* What the code does keep of C14: a call that saves once leaves no trace when
\* that save fails, and so does any call whose first save fails
C14_FirstSaveFailed ==
    (last.raised /\ last.saves = 0) => Snapshot = last.pre

(***************************************************************************)
(* Further claims about the category calls (checked under SpecCat).        *)
(***************************************************************************)
\* C15: no two custom categories of one owner have names that are equal
\* case-insensitively; and add_category is refused only for a stored system
\* name or a name the caller already holds, so a name that another user holds
\* as a custom category can still be added.
C15_PerOwnerUnique ==
    /\ \A i \in DOMAIN Load(categories) : \A j \in DOMAIN Load(categories) :
           LET a == Load(categories)[i]
               b == Load(categories)[j]
           IN (i # j /\ a.type = "custom" /\ b.type = "custom" /\ a.owner = b.owner)
                  => Lower(a.name) # Lower(b.name)
    /\ (last.op = "add_category" /\ ~last.raised) =>
           LET before == Load(last.pre.categories)
           IN last.ok = ~(\E i \in DOMAIN before :
                              /\ Lower(before[i].name) = Lower(last.name)
                              /\ (before[i].type = "system" \/ before[i].owner = last.user))

\* C15's case: a user added a name that another user already held, and both
\* categories are stored
C15_Witness ==
    /\ last.op = "add_category" /\ last.ok
    /\ \E i \in DOMAIN Load(categories) : \E j \in DOMAIN Load(categories) :
           /\ Load(categories)[i].type = "custom" /\ Load(categories)[j].type = "custom"
           /\ Load(categories)[i].owner # last.user /\ Load(categories)[j].owner = last.user
           /\ Load(categories)[i].name = last.name /\ Load(categories)[j].name = last.name

(***************************************************************************)
(* Bootstrap.  ensure_directory runs when the module is imported, that is  *)
(* at every start of the server; between two starts the calls run and      *)
(* files can be lost or damaged.                                           *)
(***************************************************************************)
\* initial_data for each key of FILES
InitialData(key) ==
    IF key = "users" THEN EmptyMapping
    ELSE IF key = "categories" THEN SeedCategories
    ELSE <<>>

\* Faulty variant: the file is written whether or not it exists
EnsuredAlways(key, file) == Stored(InitialData(key))

\* if not os.path.exists(path): DataManager.save(path, initial_data)
Ensured(key, file) == IF file.st = "absent" THEN Stored(InitialData(key)) ELSE file

\* ensure_directory(): the loop over FILES
EnsureDirectory ==
    LET Created(file) == IF file.st = "absent" THEN 1 ELSE 0
        created == Created(users) + Created(fresh) + Created(expired) + Created(categories)
    IN /\ users' = Ensured("users", users)
       /\ fresh' = Ensured("fresh", fresh)
       /\ expired' = Ensured("expired", expired)
       /\ categories' = Ensured("categories", categories)
       /\ last' = Ended("ensure_directory", "", 0, <<>>, TRUE, FALSE, created)
       /\ UNCHANGED <<today, clock, concVars, saveVars, deleted>>

\* register(): users = load('users'); if username in users: return;
\* users[username] = {...}; save('users', users)
Register(username) ==
    LET loaded == IF users.st = "ok" THEN users.doc.of ELSE <<>>
        taken == username \in DOMAIN loaded
        record == [type |-> "individual", created_at |-> StrfTime(today)]
    IN /\ users' = IF taken THEN users
                   ELSE Stored(Mapping([u \in DOMAIN loaded \cup {username} |->
                                           IF u = username THEN record ELSE loaded[u]]))
       /\ last' = Ended("register", username, 0, <<>>, ~taken, FALSE, IF taken THEN 0 ELSE 1)
       /\ UNCHANGED <<files, today, clock, concVars, saveVars, deleted>>

\* A file of the data directory is lost (removed by hand, a restored backup
\* that lacks it).  No call did this.
RemoveFile(key) ==
    /\ users' = IF key = "users" THEN AbsentFile ELSE users
    /\ fresh' = IF key = "fresh" THEN AbsentFile ELSE fresh
    /\ expired' = IF key = "expired" THEN AbsentFile ELSE expired
    /\ categories' = IF key = "categories" THEN AbsentFile ELSE categories
    /\ <<users', fresh', expired', categories'>> # <<users, fresh, expired, categories>>
    /\ last' = [NoCall EXCEPT !.pre = [fresh |-> fresh', expired |-> expired',
                                       categories |-> categories']]
    /\ UNCHANGED <<today, clock, concVars, saveVars, deleted>>

FileKeys == {"users", "fresh", "expired", "categories"}

\* Before the first start there is no data directory
InitBoot ==
    /\ fresh = AbsentFile
    /\ expired = AbsentFile
    /\ categories = AbsentFile
    /\ users = AbsentFile
    /\ today = StartDay
    /\ clock = 1
    /\ last = [NoCall EXCEPT !.day = StartDay,
                             !.pre = [fresh |-> fresh, expired |-> expired,
                                      categories |-> categories]]
    /\ lock = IdleLock
    /\ thr = IdleThreads
    /\ shadow = [fresh |-> fresh, expired |-> expired, categories |-> categories]
    /\ disk = IdleDisk
    /\ sv = IdleSave
    /\ deleted = {}

NextBoot ==
    \/ EnsureDirectory
    \/ \E u \in Users : Register(u)
    \/ \E key \in FileKeys : RemoveFile(key)
    \/ CorruptCategories
    \/ \E d \in ItemInputs({StrfTime(StartDay + 1)}, {NoCategory}), u \in Users :
           AddItem(d, u, FALSE)
    \/ \E u \in Users : AddCategory(Snacks, u, FALSE)

SpecBoot == InitBoot /\ [][NextBoot]_vars

\* C16: a call of ensure_directory creates each missing collection with its
\* default (categories with the system categories under the ids sys_0..sys_4,
\* users as the empty mapping, fresh and expired as empty sequences) and leaves
\* every collection that exists as it is; so a second call changes nothing.
C16_BootstrapIdempotent ==
    [][(last'.op = "ensure_directory" /\ last'.ok) =>
          /\ users' = (IF users.st = "absent" THEN Stored(EmptyMapping) ELSE users)
          /\ fresh' = (IF fresh.st = "absent" THEN Stored(<<>>) ELSE fresh)
          /\ expired' = (IF expired.st = "absent" THEN Stored(<<>>) ELSE expired)
          /\ categories' =
                 (IF categories.st = "absent"
                  THEN Stored([i \in 1..5 |->
                                  Category(SysId(i - 1), DEFAULT_CATEGORIES[i].name,
                                           "system", "system")])
                  ELSE categories)
          /\ (last.op = "ensure_directory" /\ last.ok) =>
                 <<users', fresh', expired', categories'>> = <<users, fresh, expired, categories>>
      ]_vars

\* C16's case: ensure_directory ran over a store that lacked the categories
\* file and held items and users, created the one and left the others
C16_Witness ==
    /\ last.op = "ensure_directory" /\ last.ok /\ last.saves = 1
    /\ last.pre.categories.st = "absent"
    /\ categories = Stored(SeedCategories)
    /\ Load(fresh) # <<>> /\ fresh = last.pre.fresh
    /\ users.st = "ok" /\ users # Stored(EmptyMapping)

(***************************************************************************)
(* The orphan-prevention invariant (checked under SpecMig).                *)
(***************************************************************************)
\* Some item of the collection carries category name and owner username
Carries(items, name, username) ==
    \E i \in DOMAIN items : items[i].owner = username /\ items[i].category = name

\* C17 (as stated): in every state reached by add_item, add_category,
\* delete_category and get_inventory calls, no item in fresh or expired carries
\* a custom category that its owner has deleted and not created again.
C17_NoOrphans ==
    \A pair \in deleted :
        /\ ~Carries(Load(fresh), pair[2], pair[1])
        /\ ~Carries(Load(expired), pair[2], pair[1])

\* What the code does keep of C17: when delete_category has returned success,
\* no item of the caller carries the deleted name
C17_NoneAfterDelete ==
    (last.op = "delete_category" /\ last.ok) =>
        /\ ~Carries(Load(fresh), last.name, last.user)
        /\ ~Carries(Load(expired), last.name, last.user)

(***************************************************************************)
(* Frame conditions of add_item and delete_item.                           *)
(***************************************************************************)
\* C18: add_item(fields, username) appends one item at the end of fresh, with
\* owner username, the name and expiry_date given, and the category given or
\* General when none is given; the items stored before keep their content and
\* order, and expired and categories are unchanged.
C18_AddItemFrame ==
    (last.op = "add_item" /\ last.ok) =>
        LET it == last.item[1]
            given == last.data[1]
        IN /\ Load(fresh) = Load(last.pre.fresh) \o <<it>>
           /\ it.owner = last.user
           /\ it.name = given.name
           /\ it.expiry_date = given.expiry_date
           /\ it.category = (IF given.category = NoCategory THEN General ELSE given.category)
           /\ expired = last.pre.expired
           /\ categories = last.pre.categories

\* C18's case: an item with no category was added to a store that held an
\* item of another owner and a custom category
C18_Witness ==
    /\ last.op = "add_item" /\ last.ok
    /\ last.data[1].category = NoCategory
    /\ Len(Load(fresh)) = 2
    /\ Load(last.pre.fresh)[1].owner # last.user
    /\ CustomCount > 0

\* The items of a collection other than those with that id and that owner
RECURSIVE Others(_, _, _)
Others(items, item_id, username) ==
    IF items = <<>> THEN <<>>
    ELSE IF Head(items).id = item_id /\ Head(items).owner = username
         THEN Others(Tail(items), item_id, username)
         ELSE <<Head(items)>> \o Others(Tail(items), item_id, username)

\* C19: delete_item(item_id, username) returns true exactly when fresh holds an
\* item with that id and that owner; it then removes the matching items and
\* keeps the others in order; when it returns false nothing is written; and the
\* expired collection is never changed.
C19_DeleteItemFrame ==
    (last.op = "delete_item" /\ ~last.raised) =>
        LET before == Load(last.pre.fresh)
        IN /\ last.ok = (\E i \in DOMAIN before :
                             before[i].id = last.id /\ before[i].owner = last.user)
           /\ Load(fresh) = Others(before, last.id, last.user)
           /\ ~last.ok => (last.saves = 0 /\ fresh = last.pre.fresh)
           /\ expired = last.pre.expired
           /\ categories = last.pre.categories

\* C19's case: the call removed the caller's item and kept an item of another
\* owner that was stored under the same id
C19_Witness ==
    /\ last.op = "delete_item" /\ last.ok
    /\ Len(Load(last.pre.fresh)) = 2
    /\ Len(Load(fresh)) = 1
    /\ Load(fresh)[1].id = last.id
    /\ Load(fresh)[1].owner # last.user

\* expiry_date is neither absent nor a calendar date written YYYY-MM-DD
IsMalformed(v) == v.k # "missing" /\ ~IsCalendarDate(v)

\* C20 (as stated): a fresh item whose expiry_date is malformed, a string that
\* is no valid YYYY-MM-DD date or no string at all, is still in fresh after
\* get_inventory, and get_inventory raises nothing.
C20_MalformedKept ==
    (last.op = "get_inventory") =>
        /\ ~last.raised
        /\ \A i \in DOMAIN Load(last.pre.fresh) :
               IsMalformed(Load(last.pre.fresh)[i].expiry_date)
                   => Occurs(Healed(Load(last.pre.fresh)[i]), Load(fresh))

\* What the code does keep of C20: get_inventory raises nothing over such
\* items, and an item whose expiry_date is no string stays in fresh
C20_NonStringKept ==
    (last.op = "get_inventory") =>
        /\ ~last.raised
        /\ \A i \in DOMAIN Load(last.pre.fresh) :
               Load(last.pre.fresh)[i].expiry_date.k \in {"num", "none"}
                   => Occurs(Healed(Load(last.pre.fresh)[i]), Load(fresh))

(***************************************************************************)
(* Further claims about the sweep (checked under Spec).                    *)
(***************************************************************************)
\* A fresh item whose calendar expiry_date lies thirty days or more before day
LongExpired(it, day) ==
    IsCalendarDate(it.expiry_date) /\ DayOf(it.expiry_date) + RetentionDays <= day

\* C24: a fresh item whose expiry_date is thirty or more days in the past is
\* moved and purged by one get_inventory call: after the call it is neither in
\* fresh nor in expired, and it is not in the expired list the call returns.
C24_PurgedInOneCall ==
    (last.op = "get_inventory" /\ last.ok) =>
        \A i \in DOMAIN Load(last.pre.fresh) :
            LET it == Load(last.pre.fresh)[i]
            IN LongExpired(it, last.day) =>
                   /\ ~Occurs(it, Load(fresh)) /\ ~Occurs(Healed(it), Load(fresh))
                   /\ ~Occurs(Archived(it, last.day), Load(expired))
                   /\ ~Occurs(Archived(it, last.day), last.expired_out)

\* C24's case: get_inventory ran over a fresh item that expired exactly thirty
\* days before, and wrote
C24_Witness ==
    /\ last.op = "get_inventory" /\ last.ok /\ last.saves = 2
    /\ \E i \in DOMAIN Load(last.pre.fresh) :
           LET it == Load(last.pre.fresh)[i]
           IN /\ IsCalendarDate(it.expiry_date)
              /\ DayOf(it.expiry_date) + RetentionDays = last.day
              /\ it.owner = last.user

(***************************************************************************)
(* A store that holds records the calls did not write: files kept from an  *)
(* earlier version or edited by hand, among them an expired record with no *)
(* 'expiry_date' key.                                                      *)
(***************************************************************************)
Undated == Item(996, "Tea", Missing, NoCategory, "bob", Missing, Missing)

InitLegacy ==
    /\ fresh \in {Stored(<<>>), Stored(<<OldCheese>>)}
    /\ expired \in {Stored(<<Unparsed>>), Stored(<<Undated>>)}
    /\ categories = Stored(SeedCategories)
    /\ today = StartDay
    /\ clock = 1
    /\ last = [NoCall EXCEPT !.day = StartDay,
                             !.pre = [fresh |-> fresh, expired |-> expired,
                                      categories |-> categories]]
    /\ lock = IdleLock
    /\ thr = IdleThreads
    /\ shadow = [fresh |-> fresh, expired |-> expired, categories |-> categories]
    /\ disk = IdleDisk
    /\ sv = IdleSave
    /\ users = Stored(EmptyMapping)
    /\ deleted = {}

SpecLegacy == InitLegacy /\ [][Next]_vars

\* Every item of the collection has a category
AllCategorised(items) == \A i \in DOMAIN items : items[i].category # NoCategory

C21_AfterSuccess ==
    (last.op = "get_inventory" /\ last.ok) =>
        /\ AllCategorised(Load(fresh))
        /\ AllCategorised(Load(expired))
        /\ \A i \in DOMAIN Load(expired) :
               /\ IsCalendarDate(Load(expired)[i].expiry_date)
               /\ last.day < DayOf(Load(expired)[i].expiry_date) + RetentionDays

(***************************************************************************)
(* One collection per item (checked under SpecFail).                       *)
(***************************************************************************)
\* The item, which get_inventory found in fresh on that day, is after the call
\* in fresh or in expired and not in both
InExactlyOne(it, day) ==
    (Occurs(it, Load(fresh)) \/ Occurs(Healed(it), Load(fresh)))
        # Occurs(Archived(it, day), Load(expired))

\* C23 (as stated): an item that was added and has been neither deleted by its
\* owner nor purged is in exactly one of fresh and expired, in every state the
\* persisted collections reach; here, in the states get_inventory leaves, for
\* the items it found in fresh that are inside the retention window.
C23_ExactlyOneCollection ==
    (last.op = "get_inventory") =>
        \A i \in DOMAIN Load(last.pre.fresh) :
            LET it == Load(last.pre.fresh)[i]
            IN (IsCalendarDate(it.expiry_date) /\ ~LongExpired(it, last.day))
                   => InExactlyOne(it, last.day)

\* What the code does keep of C23: the same, after a get_inventory that returned
C23_WhenCallReturns ==
    (last.op = "get_inventory" /\ last.ok) =>
        \A i \in DOMAIN Load(last.pre.fresh) :
            LET it == Load(last.pre.fresh)[i]
            IN (IsCalendarDate(it.expiry_date) /\ ~LongExpired(it, last.day))
                   => InExactlyOne(it, last.day)

(***************************************************************************)
(* Concurrent requests whose saves can raise, under fair scheduling.       *)
(***************************************************************************)
\* DataManager.save raises inside the with block: nothing is written, the
\* service method catches nothing, and the exception leaves the block
\* through __exit__
SaveRaises(t) ==
    /\ thr[t].pc \in {"save_fresh", "save_expired", "save_cats"}
    /\ thr' = [thr EXCEPT ![t].pc = "release", ![t].raised = TRUE]
    /\ shadow' = [fresh |-> fresh, expired |-> expired, categories |-> categories]
    /\ UNCHANGED <<files, today, clock, last, lock, saveVars, auxVars>>

\* The steps of thread t from the moment it holds DB_LOCK, in add_item,
\* delete_item, add_category and delete_category
Step(t) ==
    \/ LoadAddItem(t)
    \/ LoadDeleteItem(t)
    \/ LoadAddCategory(t)
    \/ LoadDeleteCategory(t)
    \/ SaveCats(t)
    \/ MigFresh(t)
    \/ SaveFresh(t)
    \/ MigExpired(t)
    \/ SaveRaises(t)
    \/ Release(t)

NextLock ==
    \/ \E t \in Threads, d \in ItemInputs(ConcExpInputs, {Snacks}) : BeginAddItem(t, d, Serves[t])
    \/ \E t \in Threads, id \in KnownIds : BeginDeleteItem(t, id, Serves[t])
    \/ \E t \in Threads : BeginAddCategory(t, Snacks, Serves[t])
    \/ \E t \in Threads : BeginDeleteCategory(t, Snacks, Serves[t])
    \/ \E t \in Threads : Acquire(t)
    \/ \E t \in Threads : Step(t)

\* A thread that can run does run; a thread that waits for DB_LOCK gets it if
\* the lock is free again and again
SpecLock ==
    /\ InitConc
    /\ [][NextLock]_vars
    /\ \A t \in Threads : WF_vars(Step(t)) /\ SF_vars(Acquire(t))

====
